---- MODULE Spec2Model ----
(***************************************************************************)
(* A model of yabms ("Yet Another Bloody Match Scheduler").                *)
(*                                                                         *)
(*   SpecGen      protoround._build_proto_round followed by                *)
(*                coalesce.coalesce (the generation pipeline of cli.main)  *)
(*   SpecPermute  permute.permute_zones                                    *)
(*   SpecValidate validate.validators.run_validators with the rules that   *)
(*                validator_registry registers                             *)
(*   SpecPipeline the same run_validators over any generator functions     *)
(*   SpecCache    protoround.build_proto_round with its pickle cache       *)
(*                                                                         *)
(* Both generation steps hand a constraint system to z3 and take whatever  *)
(* model it returns, so each step is a nondeterministic choice among ALL   *)
(* valuations that satisfy the constraints the code adds (and the raise of *)
(* ValueError when there is none).                                         *)
(*                                                                         *)
(* Python lists are 0-based, TLA+ sequences 1-based: match number m and    *)
(* zone number z of the code are index m+1 and z+1 here.  Round numbers    *)
(* and team numbers keep the code's 0-based values.                        *)
(***************************************************************************)
EXTENDS Integers, Sequences, FiniteSets, TLC

VARIABLES
    \* ---- generation (cli.main -> build_proto_round -> coalesce)
    num_teams, appearances_per_round, num_zones, spacing, num_rounds,
    proto_round,            \* the list of matches _build_proto_round returned
    team_to_pseudo_team,    \* the z3 model of coalesce, one map per round
    final_schedule,         \* what coalesce returned
    gen_pc,
    \* ---- permute_zones
    pz_input,               \* the argument of permute_zones
    schedule,               \* the local (copied) schedule it works on
    n,                      \* the pass number of the for loop
    ix,                     \* the match index of the descent loop
    made_changes,
    pz_pc,
    pz_seen,                \* history: least badness weight scored at a pass start
    \* ---- run_validators
    validators,             \* _VALIDATORS, the registered rules in order
    v_schedule,             \* the argument of run_validators
    v_next,                 \* index into _VALIDATORS of the next rule to run
    warnings, errors,
    v_pc, v_exc,
    \* ---- build_proto_round and its cache
    cache,                  \* the files of the cache directory, by cache key
    cache_writable,         \* whether a cache file can be written
    c_key,                  \* the arguments of the last call
    c_found,                \* history: the cache entry the last call met
    c_result,               \* what the last call returned
    c_pc, c_exc,
    c_calls                 \* number of calls made

gen_vars == <<num_teams, appearances_per_round, num_zones, spacing, num_rounds,
              proto_round, team_to_pseudo_team, final_schedule, gen_pc>>
pz_vars  == <<pz_input, schedule, n, ix, made_changes, pz_pc, pz_seen>>
val_vars == <<validators, v_schedule, v_next, warnings, errors, v_pc, v_exc>>
cache_vars == <<cache, cache_writable, c_key, c_found, c_result, c_pc, c_exc,
                c_calls>>
vars     == <<gen_vars, pz_vars, val_vars, cache_vars>>

(***************************************************************************)
(* Bounds of the model.                                                    *)
(***************************************************************************)
MaxTeams == 5
MaxAppearances == 2
MaxZones == 3
MaxSpacing == 2
MaxRounds == 3
\* a round of more matches than this is not explored
MaxMatches == 5
\* num_rounds >= 2 is explored for at most this many teams
MaxCoalesceTeams == 4

(***************************************************************************)
(* Helpers.                                                                *)
(***************************************************************************)
Max(a, b) == IF a >= b THEN a ELSE b

Min(a, b) == IF a <= b THEN a ELSE b

\* the teams of one match (a list) as a set
MatchTeams(match) == {match[z] : z \in DOMAIN match}

\* number of matches of `sched` that contain `team`
Appearances(sched, team) ==
    Cardinality({m \in DOMAIN sched : team \in MatchTeams(sched[m])})

\* flatten a list of rounds (each a list of matches) into one list
RECURSIVE Flatten(_)
Flatten(rounds) ==
    IF rounds = <<>> THEN <<>> ELSE Head(rounds) \o Flatten(Tail(rounds))

(***************************************************************************)
(* protoround._build_proto_round                                           *)
(***************************************************************************)
num_matches_of(T, A, Z) == (T * A + (Z - 1)) \div Z

\* num_appearances_in_window(team, window_start, window_end): the half-open
\* 0-based window [window_start, window_end) is matches window_start+1 ..
\* window_end here.
num_appearances_in_window(ma, Z, team, window_start, window_end) ==
    Cardinality({mz \in ((window_start + 1)..window_end) \X (1..Z) :
                    ma[mz[1]][mz[2]] = team})

\* 1: range constraints, one match: every assignment is a team number
RangeConstraint(match, T) ==
    \A z \in DOMAIN match : match[z] >= 0 /\ match[z] < T

\* 2: order constraints, one match: strictly increasing team numbers
OrderConstraint(match, Z) ==
    \A z \in 1..(Z - 1) : match[z] < match[z + 1]

\* the count constraint with "at least" in place of "exactly"
CountConstraint_at_least(ma, T, A, Z) ==
    \A team \in 0..(T - 1) :
        num_appearances_in_window(ma, Z, team, 0, Len(ma)) >= A

\* 3: count constraints: each team appears exactly A times in the round
CountConstraint(ma, T, A, Z) ==
    \A team \in 0..(T - 1) :
        num_appearances_in_window(ma, Z, team, 0, Len(ma)) = A

\* 4: spacing constraints: a sliding window of spacing+1 matches in which
\* every team appears at most once (only if spacing > 0 and A > 1)
SpacingConstraint(ma, T, A, Z, S) ==
    (S > 0 /\ A > 1) =>
        \A window_start \in 0..(Len(ma) - S - 1) :
            \A team \in 0..(T - 1) :
                num_appearances_in_window(ma, Z, team, window_start,
                                          window_start + S + 1) <= 1

\* times_faced of the pair left_team < right_team in the round
times_faced(ma, Z, left_team, right_team) ==
    Cardinality({q \in (1..Z) \X (1..Z) \X (1..Len(ma)) :
                    /\ q[1] < q[2]
                    /\ ma[q[3]][q[1]] = left_team
                    /\ ma[q[3]][q[2]] = right_team})

\* 5: facing constraints: each pair faces at most once (only if A > 1)
FacingConstraint(ma, T, A, Z) ==
    (A > 1) =>
        \A left_team \in 0..(T - 2) :
            \A right_team \in (left_team + 1)..(T - 1) :
                times_faced(ma, Z, left_team, right_team) <= 1

\* the values one match can take under constraints 1 and 2
MatchValuations(T, Z) ==
    {match \in [1..Z -> 0..(T - 1)] :
        RangeConstraint(match, T) /\ OrderConstraint(match, Z)}

\* every model z3 can return for the constraint system of _build_proto_round
ProtoRoundModels(T, A, Z, S) ==
    {ma \in [1..num_matches_of(T, A, Z) -> MatchValuations(T, Z)] :
        /\ CountConstraint(ma, T, A, Z)
        /\ SpacingConstraint(ma, T, A, Z, S)
        /\ FacingConstraint(ma, T, A, Z)}

(***************************************************************************)
(* coalesce.coalesce                                                       *)
(***************************************************************************)
\* teams = sorted({y for x in proto_round for y in x})
TeamsOf(pr) == UNION {MatchTeams(pr[m]) : m \in DOMAIN pr}

SetMin(S) == CHOOSE x \in S : \A y \in S : x <= y

SetMax(S) == CHOOSE x \in S : \A y \in S : x >= y

\* 1 and 2: one round's allocations lie in min_team..max_team and are
\* distinct (z3.Distinct over the teams of the round)
RoundBijections(teams) ==
    {f \in [teams -> SetMin(teams)..SetMax(teams)] :
        \A t1, t2 \in teams : t1 # t2 => f[t1] # f[t2]}

\* round disjointness between consecutive rounds only
RoundDisjointness_consecutive(a, teams) ==
    \A team \in teams :
        \A r1 \in DOMAIN a :
            (r1 + 1) \in DOMAIN a => a[r1][team] # a[r1 + 1][team]

\* 3: each team has a different allocation in each round (z3.Distinct over
\* the rounds of a team).  `a` is the list of the rounds' maps: a[r+1] is
\* round r.
RoundDisjointness(a, teams) ==
    \A team \in teams :
        \A r1, r2 \in DOMAIN a : r1 # r2 => a[r1][team] # a[r2][team]

\* proto_round[-spacing_number - 1 :]
end_window_teams(pr, spacing_number) ==
    UNION {MatchTeams(pr[m]) :
             m \in Max(1, Len(pr) - spacing_number)..Len(pr)}

\* the start window one match short: proto_round[: spacing - spacing_number - 1]
start_window_teams_short(pr, S, spacing_number) ==
    UNION {MatchTeams(pr[m]) : m \in 1..Min(S - spacing_number - 1, Len(pr))}

\* proto_round[: spacing - spacing_number]
start_window_teams(pr, S, spacing_number) ==
    UNION {MatchTeams(pr[m]) : m \in 1..Min(S - spacing_number, Len(pr))}

\* 4: spacing constraints across the seam of consecutive rounds
CoalesceSpacing(a, pr, teams, S) ==
    \A spacing_number \in 0..(S - 1) :
        \A earlier \in 1..(Len(a) - 1) :
            \A e \in end_window_teams(pr, spacing_number) :
                \A s \in start_window_teams(pr, S, spacing_number) :
                    \A team \in teams :
                        ~(a[earlier][team] = e /\ a[earlier + 1][team] = s)

forbid_team_overlap(pr) == Max(Len(pr[1]) - 1, 2)

\* itertools.combinations(teams, k): the increasing k-tuples of teams
team_combinations(teams, k) ==
    {c \in [1..k -> teams] : \A i \in 1..(k - 1) : c[i] < c[i + 1]}

\* itertools.permutations(zone_indices, k): the injective k-tuples of zones
zone_permutations(Z, k) ==
    {p \in [1..k -> 1..Z] : \A i, j \in 1..k : i # j => p[i] # p[j]}

\* z3.And of "team is allocated the pseudo-team at that zone of the match"
assigned(alloc, match, real_team_mix, zones) ==
    \A i \in DOMAIN real_team_mix :
        alloc[real_team_mix[i]] = match[zones[i]]

\* the overlap constraint comparing only the matches at the same position of
\* the two rounds (earlier_match is later_match)
MatchOverlap_same_position(a, pr, teams) ==
    LET k  == forbid_team_overlap(pr)
        zp == zone_permutations(Len(pr[1]), k)
    IN  \A earlier \in 1..(Len(a) - 1) :
          \A later \in (earlier + 1)..Len(a) :
            \A real_team_mix \in team_combinations(teams, k) :
              \A em \in DOMAIN pr : \A early_zones \in zp :
                assigned(a[earlier], pr[em], real_team_mix, early_zones) =>
                  \A late_zones \in zp :
                    ~assigned(a[later], pr[em], real_team_mix, late_zones)

\* 5: match overlap constraints: no forbid_team_overlap real teams share a
\* match of an earlier round and a match of a later round
MatchOverlap(a, pr, teams) ==
    LET k  == forbid_team_overlap(pr)
        zp == zone_permutations(Len(pr[1]), k)
    IN  \A earlier \in 1..(Len(a) - 1) :
          \A later \in (earlier + 1)..Len(a) :
            \A real_team_mix \in team_combinations(teams, k) :
              \A em \in DOMAIN pr : \A early_zones \in zp :
                assigned(a[earlier], pr[em], real_team_mix, early_zones) =>
                  \A lm \in DOMAIN pr : \A late_zones \in zp :
                    ~assigned(a[later], pr[lm], real_team_mix, late_zones)

CoalesceConstraints(a, pr, teams, S) ==
    /\ RoundDisjointness(a, teams)
    /\ CoalesceSpacing(a, pr, teams, S)
    /\ MatchOverlap(a, pr, teams)

\* Every model z3 can return for rounds 0..R-1.  All constraints relate the
\* maps of two rounds, so a model restricted to its first rounds is a model
\* of the first rounds: the set is enumerated one round at a time.
RECURSIVE CoalesceModels(_, _, _)
CoalesceModels(pr, R, S) ==
    IF R = 0 THEN {<<>>}
    ELSE {ap \in {Append(x[1], x[2]) :
                    x \in CoalesceModels(pr, R - 1, S) \X
                          RoundBijections(TeamsOf(pr))} :
            CoalesceConstraints(ap, pr, TeamsOf(pr), S)}

\* the team -> pseudo-team map read in the wrong direction
pseudo_team_to_team_forward(alloc, teams, pseudo) == alloc[pseudo]

\* pseudo_team_to_team[pseudo] of one round
pseudo_team_to_team(alloc, teams, pseudo) ==
    CHOOSE team \in teams : alloc[team] = pseudo

\* the matches of one round: the proto-round with real teams put in
assigned_round(alloc, pr, teams) ==
    [m \in DOMAIN pr |->
        [z \in DOMAIN pr[m] |-> pseudo_team_to_team(alloc, teams, pr[m][z])]]

\* the schedule with the last round left out (range(num_rounds - 1))
ScheduleOf_drop_last_round(a, pr) ==
    Flatten([r \in 1..(Len(a) - 1) |-> assigned_round(a[r], pr, TeamsOf(pr))])

\* final_schedule built from a model
ScheduleOf(a, pr) ==
    Flatten([r \in DOMAIN a |-> assigned_round(a[r], pr, TeamsOf(pr))])

(***************************************************************************)
(* The generation pipeline.                                                *)
(***************************************************************************)
NoValue == <<>>

ParamSpace ==
    {p \in (1..MaxTeams) \X (1..MaxAppearances) \X (1..MaxZones) \X
           (0..MaxSpacing) \X (1..MaxRounds) :
        /\ num_matches_of(p[1], p[2], p[3]) <= MaxMatches
        /\ (p[5] >= 2 => p[1] <= MaxCoalesceTeams)}

InitGenVars ==
    /\ \E p \in ParamSpace :
         /\ num_teams = p[1]
         /\ appearances_per_round = p[2]
         /\ num_zones = p[3]
         /\ spacing = p[4]
         /\ num_rounds = p[5]
    /\ proto_round = NoValue
    /\ team_to_pseudo_team = NoValue
    /\ final_schedule = NoValue
    /\ gen_pc = "start"

IdleGenVars ==
    /\ num_teams = 1 /\ appearances_per_round = 1 /\ num_zones = 1
    /\ spacing = 0 /\ num_rounds = 1
    /\ proto_round = NoValue /\ team_to_pseudo_team = NoValue
    /\ final_schedule = NoValue /\ gen_pc = "idle"

IdlePzVars ==
    /\ pz_input = <<>> /\ schedule = <<>> /\ n = 0 /\ ix = 0
    /\ made_changes = FALSE /\ pz_pc = "idle" /\ pz_seen = 0

IdleValVars ==
    /\ validators = <<>>
    /\ v_schedule = <<>> /\ v_next = 0 /\ warnings = <<>> /\ errors = <<>>
    /\ v_pc = "idle" /\ v_exc = "none"

IdleCacheVars ==
    /\ cache = <<>> /\ cache_writable = TRUE /\ c_key = <<>>
    /\ c_found = <<>> /\ c_result = <<>> /\ c_pc = "idle" /\ c_exc = "none"
    /\ c_calls = 0

\* _build_proto_round returns the model z3 found
BuildProtoRound ==
    /\ gen_pc = "start"
    /\ \E ma \in ProtoRoundModels(num_teams, appearances_per_round,
                                  num_zones, spacing) :
         proto_round' = ma
    /\ gen_pc' = "built"
    /\ UNCHANGED <<num_teams, appearances_per_round, num_zones, spacing,
                   num_rounds, team_to_pseudo_team, final_schedule>>
    /\ UNCHANGED <<pz_vars, val_vars, cache_vars>>

\* result != z3.sat: raise ValueError("Solver failed to find a solution.")
BuildProtoRoundFails ==
    /\ gen_pc = "start"
    /\ ProtoRoundModels(num_teams, appearances_per_round,
                        num_zones, spacing) = {}
    /\ gen_pc' = "build_failed"
    /\ UNCHANGED <<num_teams, appearances_per_round, num_zones, spacing,
                   num_rounds, proto_round, team_to_pseudo_team,
                   final_schedule>>
    /\ UNCHANGED <<pz_vars, val_vars, cache_vars>>

\* num_rounds == 1: "No additional work required", return proto_round
CoalesceSingleRound ==
    /\ gen_pc = "built"
    /\ num_rounds = 1
    /\ final_schedule' = proto_round
    /\ gen_pc' = "coalesced"
    /\ UNCHANGED <<num_teams, appearances_per_round, num_zones, spacing,
                   num_rounds, proto_round, team_to_pseudo_team>>
    /\ UNCHANGED <<pz_vars, val_vars, cache_vars>>

\* coalesce returns the schedule of the model z3 found
Coalesce ==
    /\ gen_pc = "built"
    /\ num_rounds # 1
    /\ \E a \in CoalesceModels(proto_round, num_rounds, spacing) :
         /\ team_to_pseudo_team' = a
         /\ final_schedule' = ScheduleOf(a, proto_round)
    /\ gen_pc' = "coalesced"
    /\ UNCHANGED <<num_teams, appearances_per_round, num_zones, spacing,
                   num_rounds, proto_round>>
    /\ UNCHANGED <<pz_vars, val_vars, cache_vars>>

\* result != z3.sat: raise ValueError("Unable to solve")
CoalesceFails ==
    /\ gen_pc = "built"
    /\ num_rounds # 1
    /\ CoalesceModels(proto_round, num_rounds, spacing) = {}
    /\ gen_pc' = "coalesce_failed"
    /\ UNCHANGED <<num_teams, appearances_per_round, num_zones, spacing,
                   num_rounds, proto_round, team_to_pseudo_team,
                   final_schedule>>
    /\ UNCHANGED <<pz_vars, val_vars, cache_vars>>

InitGen == InitGenVars /\ IdlePzVars /\ IdleValVars /\ IdleCacheVars

NextGen ==
    \/ BuildProtoRound
    \/ BuildProtoRoundFails
    \/ CoalesceSingleRound
    \/ Coalesce
    \/ CoalesceFails

SpecGen == InitGen /\ [][NextGen]_vars

(***************************************************************************)
(* protoround.build_proto_round: the pickle cache around                   *)
(* _build_proto_round.  A cache file is absent, holds a stored proto-round *)
(* (written by an earlier call), or cannot be used: "corrupt" when         *)
(* pickle.load fails on its content, "unreadable" when open() fails with   *)
(* another error than FileNotFoundError.                                   *)
(***************************************************************************)
MaxCacheTeams == 2
MaxCacheAppearances == 2
MaxCacheZones == 2
MaxCacheSpacing == 1
MaxCalls == 2

\* the arguments of build_proto_round, which the cache key spells out:
\* f"pround-{num_teams}-{appearances_per_round}-{num_zones}-{spacing}"
CacheKeys ==
    (1..MaxCacheTeams) \X (1..MaxCacheAppearances) \X (1..MaxCacheZones) \X
    (0..MaxCacheSpacing)

Absent == [kind |-> "absent", value |-> <<>>]

Stored(value) == [kind |-> "stored", value |-> value]

Damaged(kind) == [kind |-> kind, value |-> <<>>]

\* _build_proto_round for the arguments of a key
ModelsOf(key) == ProtoRoundModels(key[1], key[2], key[3], key[4])

InitCacheVars ==
    /\ cache = [key \in CacheKeys |-> Absent]
    /\ cache_writable \in BOOLEAN
    /\ c_key = <<>>
    /\ c_found = Absent
    /\ c_result = <<>>
    /\ c_pc = "idle"
    /\ c_exc = "none"
    /\ c_calls = 0

\* _get_cache returns the stored round and it is truthy (a stored round of
\* no match is taken for a miss): "Using cached proto-round"
CacheHit ==
    /\ c_calls < MaxCalls
    /\ \E key \in CacheKeys :
         /\ cache[key].kind = "stored"
         /\ cache[key].value # <<>>
         /\ c_key' = key
         /\ c_found' = cache[key]
         /\ c_result' = cache[key].value
    /\ c_pc' = "returned"
    /\ c_exc' = "none"
    /\ c_calls' = c_calls + 1
    /\ UNCHANGED <<cache, cache_writable>>
    /\ UNCHANGED <<gen_vars, pz_vars, val_vars>>

\* _get_cache raises: open() fails with an error that is not
\* FileNotFoundError, or pickle.load fails; only FileNotFoundError is caught
CacheReadRaises ==
    /\ c_calls < MaxCalls
    /\ \E key \in CacheKeys :
         /\ cache[key].kind \in {"corrupt", "unreadable"}
         /\ c_key' = key
         /\ c_found' = cache[key]
         /\ c_exc' = IF cache[key].kind = "corrupt" THEN "UnpicklingError"
                     ELSE "OSError"
    /\ c_result' = <<>>
    /\ c_pc' = "raised"
    /\ c_calls' = c_calls + 1
    /\ UNCHANGED <<cache, cache_writable>>
    /\ UNCHANGED <<gen_vars, pz_vars, val_vars>>

\* a miss: _get_cache returns None (FileNotFoundError), the round is built,
\* _set_cache writes it, and it is returned
CacheMissStores ==
    /\ c_calls < MaxCalls
    /\ cache_writable
    /\ \E key \in CacheKeys :
         /\ cache[key].kind = "absent"
         /\ \E ma \in ModelsOf(key) :
              /\ c_result' = ma
              /\ cache' = [cache EXCEPT ![key] = Stored(ma)]
         /\ c_key' = key
         /\ c_found' = cache[key]
    /\ c_pc' = "returned"
    /\ c_exc' = "none"
    /\ c_calls' = c_calls + 1
    /\ UNCHANGED cache_writable
    /\ UNCHANGED <<gen_vars, pz_vars, val_vars>>

\* a miss, the round is built, and _set_cache raises (open(..., "wb") or
\* pickle.dump fails): nothing catches it, the built round is lost
CacheWriteRaises ==
    /\ c_calls < MaxCalls
    /\ ~cache_writable
    /\ \E key \in CacheKeys :
         /\ cache[key].kind = "absent"
         /\ ModelsOf(key) # {}
         /\ c_key' = key
         /\ c_found' = cache[key]
    /\ c_result' = <<>>
    /\ c_pc' = "raised"
    /\ c_exc' = "OSError"
    /\ c_calls' = c_calls + 1
    /\ UNCHANGED <<cache, cache_writable>>
    /\ UNCHANGED <<gen_vars, pz_vars, val_vars>>

\* a miss and the solver finds no model: ValueError("Solver failed to find
\* a solution."), nothing is written
CacheMissSolverFails ==
    /\ c_calls < MaxCalls
    /\ \E key \in CacheKeys :
         /\ cache[key].kind = "absent"
         /\ ModelsOf(key) = {}
         /\ c_key' = key
         /\ c_found' = cache[key]
    /\ c_result' = <<>>
    /\ c_pc' = "raised"
    /\ c_exc' = "ValueError"
    /\ c_calls' = c_calls + 1
    /\ UNCHANGED <<cache, cache_writable>>
    /\ UNCHANGED <<gen_vars, pz_vars, val_vars>>

\* the environment between two calls: a cache file is truncated or
\* overwritten, or loses its read permission (one file at most)
CacheFileDamaged ==
    /\ c_calls < MaxCalls
    /\ \A key \in CacheKeys : cache[key].kind \in {"absent", "stored"}
    /\ \E key \in CacheKeys : \E kind \in {"corrupt", "unreadable"} :
         cache' = [cache EXCEPT ![key] = Damaged(kind)]
    /\ UNCHANGED <<cache_writable, c_key, c_found, c_result, c_pc, c_exc, c_calls>>
    /\ UNCHANGED <<gen_vars, pz_vars, val_vars>>

InitCache == IdleGenVars /\ IdlePzVars /\ IdleValVars /\ InitCacheVars

NextCache ==
    \/ CacheHit
    \/ CacheReadRaises
    \/ CacheMissStores
    \/ CacheWriteRaises
    \/ CacheMissSolverFails
    \/ CacheFileDamaged

SpecCache == InitCache /\ [][NextCache]_vars


(***************************************************************************)
(* permute.permute_zones                                                   *)
(***************************************************************************)
MaxPzTeams == 2
MaxPzMatches == 3
PzZones == 2

num_iterations == 1000

\* the (team, zone_number) keys of appearance_counts
TeamZonePairs(sched) ==
    {<<sched[m][z], z>> : m \in DOMAIN sched, z \in 1..PzZones}

\* appearance_counts[(team, zone_number)]
appearance_count(sched, tz) ==
    Cardinality({m \in DOMAIN sched : sched[m][tz[2]] = tz[1]})

RECURSIVE WeightOver(_, _)
WeightOver(sched, pairs) ==
    IF pairs = {} THEN 1
    ELSE LET tz == CHOOSE x \in pairs : TRUE
             c  == appearance_count(sched, tz)
         IN  (c ^ c) * WeightOver(sched, pairs \ {tz})

\* _badness(schedule) is best_possible_entropy - entropy
\*    = ln N - (ln N - (1/N) * SUM c ln c) = (1/N) * ln (PRODUCT c^c)
\* for the counts c of appearance_counts and their sum N.  The floating
\* point value is kept here as the integer PRODUCT c^c: N is the same for
\* all orderings of the same matches, so two schedules compare in badness
\* as their weights compare.
BadnessWeight(sched) == WeightOver(sched, TeamZonePairs(sched))

\* math.log(sum(appearance_counts.values())) raises ValueError (math domain
\* error) when there is no appearance at all
BadnessRaises(sched) == TeamZonePairs(sched) = {}

\* score < 1e-6: (1/N) * ln W < 1e-6 holds for W = 1 (rounding leaves about
\* 1e-16) and for no W >= 2 while N < ln 2 / 1e-6
ScoreNearZero(sched) == BadnessWeight(sched) = 1

\* itertools.permutations(match)
match_permutations(match) ==
    {[z \in DOMAIN match |-> match[f[z]]] :
        f \in {g \in [DOMAIN match -> DOMAIN match] :
                 \A i, j \in DOMAIN match : i # j => g[i] # g[j]}}

\* itertools.chain(schedule[:ix], (perm,), schedule[ix + 1:])
WithMatch(sched, i, perm) == [sched EXCEPT ![i] = perm]

\* min(itertools.permutations(match), key=badness of the schedule with it):
\* the orderings of least badness.  Orderings of equal weight differ in the
\* computed float by rounding only (the counter is summed in another order),
\* and which of them min() returns is decided by that rounding: any of them.
best_permutations(sched, i) ==
    {perm \in match_permutations(sched[i]) :
        \A other \in match_permutations(sched[i]) :
            BadnessWeight(WithMatch(sched, i, perm))
                <= BadnessWeight(WithMatch(sched, i, other))}

\* what the annealing step can leave: random.shuffle(match) on the matches
\* for which random.random() < temperature.  temperature is 1 in pass 0 and
\* in (0, 1) later; a shuffle can leave the order as it was, so in every
\* pass the outcomes are all reorderings of every match.
annealed(sched) ==
    {s \in [DOMAIN sched -> UNION {match_permutations(sched[m]) : m \in DOMAIN sched}] :
        \A m \in DOMAIN sched : s[m] \in match_permutations(sched[m])}

PzMatchValues ==
    {match \in [1..PzZones -> 0..(MaxPzTeams - 1)] :
        \A i, j \in 1..PzZones : i # j => match[i] # match[j]}

PzInputs == UNION {[1..len -> PzMatchValues] : len \in 0..MaxPzMatches}

\* permute_zones(schedule): the hard copy, then the first pass
InitPzVars ==
    /\ pz_input \in PzInputs
    /\ schedule = pz_input
    /\ n = 0
    /\ ix = 0
    /\ made_changes = FALSE
    /\ pz_pc = "score"
    /\ pz_seen = -1

\* score = _badness(schedule) raises
PzScoreRaises ==
    /\ pz_pc = "score"
    /\ BadnessRaises(schedule)
    /\ pz_pc' = "raised"
    /\ UNCHANGED <<pz_input, schedule, n, ix, made_changes, pz_seen>>
    /\ UNCHANGED <<gen_vars, val_vars, cache_vars>>

\* score < 1e-6: break, return schedule
PzScoreBreak ==
    /\ pz_pc = "score"
    /\ ~BadnessRaises(schedule)
    /\ ScoreNearZero(schedule)
    /\ pz_pc' = "returned"
    /\ pz_seen' = IF pz_seen = -1 THEN BadnessWeight(schedule)
                  ELSE Min(pz_seen, BadnessWeight(schedule))
    /\ UNCHANGED <<pz_input, schedule, n, ix, made_changes>>
    /\ UNCHANGED <<gen_vars, val_vars, cache_vars>>

\* made_changes = False; score not near zero: go on to the descent loop
PzScoreContinue ==
    /\ pz_pc = "score"
    /\ ~BadnessRaises(schedule)
    /\ ~ScoreNearZero(schedule)
    /\ made_changes' = FALSE
    /\ ix' = 0
    /\ pz_pc' = "descent"
    /\ pz_seen' = IF pz_seen = -1 THEN BadnessWeight(schedule)
                  ELSE Min(pz_seen, BadnessWeight(schedule))
    /\ UNCHANGED <<pz_input, schedule, n>>
    /\ UNCHANGED <<gen_vars, val_vars, cache_vars>>

\* one turn of "for ix, match in enumerate(schedule)"
PzDescentStep ==
    /\ pz_pc = "descent"
    /\ ix < Len(schedule)
    /\ \E best_permutation \in best_permutations(schedule, ix + 1) :
         /\ schedule' = WithMatch(schedule, ix + 1, best_permutation)
         /\ made_changes' = (made_changes \/ schedule[ix + 1] # best_permutation)
    /\ ix' = ix + 1
    /\ UNCHANGED <<pz_input, n, pz_pc, pz_seen>>
    /\ UNCHANGED <<gen_vars, val_vars, cache_vars>>

\* the end of a pass: pass n+1 follows, or the loop is over and the
\* schedule is returned
AfterPass(k) == IF k + 1 < num_iterations THEN "score" ELSE "returned"

\* the pass made changes: no annealing step
PzPassChanged ==
    /\ pz_pc = "descent"
    /\ ix = Len(schedule)
    /\ made_changes
    /\ n' = n + 1
    /\ pz_pc' = AfterPass(n)
    /\ UNCHANGED <<pz_input, schedule, ix, made_changes, pz_seen>>
    /\ UNCHANGED <<gen_vars, val_vars, cache_vars>>

\* if not made_changes: the annealing step
PzAnneal ==
    /\ pz_pc = "descent"
    /\ ix = Len(schedule)
    /\ ~made_changes
    /\ schedule' \in annealed(schedule)
    /\ n' = n + 1
    /\ pz_pc' = AfterPass(n)
    /\ UNCHANGED <<pz_input, ix, made_changes, pz_seen>>
    /\ UNCHANGED <<gen_vars, val_vars, cache_vars>>

InitPermute == IdleGenVars /\ InitPzVars /\ IdleValVars /\ IdleCacheVars

NextPermute ==
    \/ PzScoreRaises
    \/ PzScoreBreak
    \/ PzScoreContinue
    \/ PzDescentStep
    \/ PzPassChanged
    \/ PzAnneal

SpecPermute == InitPermute /\ [][NextPermute]_vars

(***************************************************************************)
(* validate.validators.run_validators and the registered rules             *)
(*                                                                         *)
(* Team labels are the strings the validator command line reads; the model *)
(* takes the one-digit numerals "1", "2", ... and writes them as numbers   *)
(* (their order as strings is their order as numbers, int() never fails).  *)
(***************************************************************************)
MaxVLabel == 3
MaxVMatchSize == 2
MaxVMatches == 3

\* def error(message), def warning(message): one parameter each
error_parameters == 1

warning_parameters == 1

\* the ascending list of a set of numbers: sorted(...)
RECURSIVE Sorted(_)
Sorted(S) ==
    IF S = {} THEN <<>>
    ELSE <<SetMin(S)>> \o Sorted(S \ {SetMin(S)})

\* the number of entries of `match` equal to `team`: Counter(match)[team]
CountIn(match, team) == Cardinality({z \in DOMAIN match : match[z] = team})

\* Counter(team for match in schedule for team in match)[team]
CountEntries(sched, team) ==
    Cardinality({mz \in (DOMAIN sched) \X (1..MaxVMatchSize) :
                    mz[2] \in DOMAIN sched[mz[1]] /\ sched[mz[1]][mz[2]] = team})

\* A rule is a generator.  Its run is modelled by what it does in order:
\* the calls "yield error(code, message)" / "yield warning(code, message)"
\* it comes to, as [level, args], and the exception (if any) that one of its
\* own statements raises, with the number of calls made before it.
ErrorCall(code, message) == [level |-> "error", args |-> <<code, message>>]

WarningCall(code, message) == [level |-> "warning", args |-> <<code, message>>]

\* `returns` is the value the generator returns when it ends without an
\* exception: None for a rule without a return statement.
RuleRun(calls) == [calls |-> calls, exc |-> "none", returns |-> "None"]

RuleRaises(exc) == [calls |-> <<>>, exc |-> exc, returns |-> "None"]

\* validator_dupes.validate_dupes (match index ix is 0-based in the message)
validate_dupes(sched) ==
    RuleRun(Flatten([m \in DOMAIN sched |->
        LET duplicate_teams ==
                Sorted({t \in MatchTeams(sched[m]) : CountIn(sched[m], t) > 1})
        IN  [i \in DOMAIN duplicate_teams |->
                ErrorCall("dupe", <<"team", duplicate_teams[i], "match", m - 1,
                                    "times", CountIn(sched[m], duplicate_teams[i])>>)]]))

\* validator_equal_appearances.validate_equal_appearances
validate_equal_appearances(sched) ==
    LET teams == Sorted(TeamsOf(sched))
        most_appearances ==
            SetMax({CountEntries(sched, t) : t \in TeamsOf(sched)})
        deviating ==
            SelectSeq(teams, LAMBDA t : CountEntries(sched, t) # most_appearances)
    IN  RuleRun([i \in DOMAIN deviating |->
            ErrorCall("unequal-appearances",
                      <<"team", deviating[i], "appears", CountEntries(sched, deviating[i]),
                        "expected", most_appearances>>)])

FACING_WARNING_THRESHOLD == 3

FACING_ERROR_THRESHOLD == 4

\* the keys of `facings` in insertion order: the pairs left < right of
\* all_teams
facing_pairs(sched) ==
    LET all_teams == Sorted(TeamsOf(sched))
    IN  Flatten([i \in 1..(Len(all_teams) - 1) |->
            [j \in 1..(Len(all_teams) - i) |-> <<all_teams[i], all_teams[i + j]>>]])

\* facings[left_team, right_team] after the counting loop: the pairs of
\* positions of sorted(match) that hold the two teams
facings(sched, left_team, right_team) ==
    Cardinality({mz \in (DOMAIN sched) \X (1..MaxVMatchSize) \X (1..MaxVMatchSize) :
                    /\ mz[2] \in DOMAIN sched[mz[1]]
                    /\ mz[3] \in DOMAIN sched[mz[1]]
                    /\ sched[mz[1]][mz[2]] = left_team
                    /\ sched[mz[1]][mz[3]] = right_team})

\* validator_facing.validate_facing
validate_facing(sched) ==
    LET pairs == facing_pairs(sched)
        most_facings ==
            SetMax({facings(sched, pairs[i][1], pairs[i][2]) : i \in DOMAIN pairs})
        unbalanced ==
            SelectSeq(pairs, LAMBDA p :
                most_facings - facings(sched, p[1], p[2]) >= FACING_WARNING_THRESHOLD)
    IN  IF \E m \in DOMAIN sched : \E t \in MatchTeams(sched[m]) : CountIn(sched[m], t) > 1
        THEN RuleRaises("KeyError")      \* facings[team, team] += 1
        ELSE IF pairs = <<>>
        THEN RuleRaises("ValueError")    \* max() of an empty sequence
        ELSE RuleRun([i \in DOMAIN unbalanced |->
            LET p == unbalanced[i]
                c == facings(sched, p[1], p[2])
            IN  IF most_facings - c < FACING_ERROR_THRESHOLD
                THEN WarningCall("unequal-facings",
                                 <<"teams", p[1], p[2], "face", c, "ideally", most_facings>>)
                ELSE ErrorCall("unequal-facings",
                               <<"teams", p[1], p[2], "face", c, "ideally", most_facings>>)])

\* validator_numeric.validate_numeric
validate_numeric(sched) ==
    LET all_teams == TeamsOf(sched)
        lowest_team == SetMin(all_teams)
        highest_team == SetMax(all_teams)
    IN  RuleRun(
            IF lowest_team # 1
            THEN <<WarningCall("non-one-indexed", <<"lowest", lowest_team>>)>>
            ELSE IF highest_team # Cardinality(all_teams)
            THEN <<WarningCall("non-consecutive",
                               <<"highest", highest_team, "should be", Cardinality(all_teams)>>)>>
            ELSE <<>>)

\* combinations[teams_this_match]: the first match with that team set
first_match_with(sched, teams) ==
    SetMin({m \in DOMAIN sched : MatchTeams(sched[m]) = teams})

\* validator_rerun.validate_reruns (match indices are 0-based in the message)
validate_reruns(sched) ==
    LET repeats ==
            SelectSeq([m \in DOMAIN sched |-> m],
                      LAMBDA m : first_match_with(sched, MatchTeams(sched[m])) # m)
    IN  RuleRun([i \in DOMAIN repeats |->
            ErrorCall("rerun",
                      <<"match", repeats[i] - 1, "same as",
                        first_match_with(sched, MatchTeams(sched[repeats[i]])) - 1,
                        "teams", Sorted(MatchTeams(sched[repeats[i]]))>>)])

\* validator_size.validate_size
validate_size(sched) ==
    LET wrong ==
            SelectSeq([m \in DOMAIN sched |-> m],
                      LAMBDA m : Len(sched[m]) # Len(sched[1]))
    IN  RuleRun([i \in DOMAIN wrong |->
            ErrorCall("wrong-size",
                      <<"match", wrong[i] - 1, "has", Len(sched[wrong[i]]),
                        "expected", Len(sched[1])>>)])

MIN_SPACING == 1

\* validator_spacing.validate_spacing: every match but the last
\* window_size - 1, every entry of it, every one of the next
\* window_size - 1 matches that holds the entry's team
validate_spacing(sched) ==
    LET window_size == MIN_SPACING + 1
    IN  RuleRun(Flatten([m \in 1..(Len(sched) - (window_size - 1)) |->
            Flatten([z \in DOMAIN sched[m] |->
                LET others ==
                        SelectSeq([k \in 1..(window_size - 1) |-> m + k],
                                  LAMBDA o : sched[m][z] \in MatchTeams(sched[o]))
                IN  [i \in DOMAIN others |->
                        ErrorCall("spacing",
                                  <<"team", sched[m][z], "match", m - 1,
                                    "and", m - 1 + window_size>>)]])]))

\* appearances_by_team_and_zone[team, zone], zone 0-based
zone_appearances(sched, team, zone) ==
    Cardinality({m \in DOMAIN sched :
                    (zone + 1) \in DOMAIN sched[m] /\ sched[m][zone + 1] = team})

\* validator_zone_distribution.validate_zone_distribution (the teams of a
\* set are visited in ascending order here)
validate_zone_distribution(sched) ==
    LET nz == Len(sched[1])
        fewest(t) == SetMin({zone_appearances(sched, t, z) : z \in 0..(nz - 1)})
        most(t) == SetMax({zone_appearances(sched, t, z) : z \in 0..(nz - 1)})
        unbalanced ==
            SelectSeq(Sorted(TeamsOf(sched)), LAMBDA t : most(t) - fewest(t) # 0)
    IN  RuleRun([i \in DOMAIN unbalanced |->
            LET t == unbalanced[i]
                witness_fewest ==
                    SetMin({z \in 0..(nz - 1) : zone_appearances(sched, t, z) = fewest(t)})
                witness_most ==
                    SetMin({z \in 0..(nz - 1) : zone_appearances(sched, t, z) = most(t)})
                message == <<"team", t, "most", most(t), "zone", witness_most,
                             "fewest", fewest(t), "zone", witness_fewest>>
            IN  IF most(t) - fewest(t) = 1
                THEN WarningCall("unbalanced-passable", message)
                ELSE ErrorCall("unbalanced-impassable", message)])

\* _VALIDATORS after validator_registry.register_all_validators: the
\* decorators run in the order of the imports
NumValidators == 8

RunRule(i, sched) ==
    CASE i = 1 -> validate_dupes(sched)
      [] i = 2 -> validate_equal_appearances(sched)
      [] i = 3 -> validate_facing(sched)
      [] i = 4 -> validate_numeric(sched)
      [] i = 5 -> validate_reruns(sched)
      [] i = 6 -> validate_size(sched)
      [] i = 7 -> validate_spacing(sched)
      [] i = 8 -> validate_zone_distribution(sched)

\* error(...) / warning(...) called with the arguments of `call`: the
\* function takes `message` alone, so a call with any other number of
\* arguments raises TypeError; a call that fits returns (level, message)
CallRaises(call) ==
    Len(call.args) # (IF call.level = "error" THEN error_parameters
                      ELSE warning_parameters)

\* _run_validator: the loop over next(generator).  An exception raised in
\* the generator (by a call of error/warning, or by a statement of the
\* rule) leaves next() and _run_validator, which catches StopIteration
\* only.
RECURSIVE Consume(_, _, _, _)
Consume(calls, exc, w, e) ==
    IF calls = <<>> THEN [warnings |-> w, errors |-> e, exc |-> exc]
    ELSE IF CallRaises(Head(calls))
    THEN [warnings |-> w, errors |-> e, exc |-> "TypeError"]
    ELSE IF Head(calls).level = "error"
    THEN Consume(Tail(calls), exc, w, Append(e, Head(calls).args[1]))
    ELSE IF Head(calls).level = "warning"
    THEN Consume(Tail(calls), exc, Append(w, Head(calls).args[1]), e)
    ELSE [warnings |-> w, errors |-> e, exc |-> "ValueError"]  \* Unknown level

\* the run of one entry of _VALIDATORS on the schedule: a registered rule
\* (id 1..NumValidators) runs its code; any other generator function
\* (id 0) is given by its run
RuleOutcome(rule, sched) ==
    IF rule.id = 0 THEN [calls |-> rule.calls, exc |-> rule.exc,
                         returns |-> rule.returns]
    ELSE RunRule(rule.id, sched)

\* _run_validator(validator, schedule, warnings, errors); go_on is its
\* result: False only when the generator ended by returning False
run_validator(rule, sched, w, e) ==
    LET run == RuleOutcome(rule, sched)
        r == Consume(run.calls, run.exc, w, e)
    IN  [warnings |-> r.warnings, errors |-> r.errors, exc |-> r.exc,
         go_on |-> ~(r.exc = "none" /\ run.returns = "False")]

RegisteredValidators == [i \in 1..NumValidators |-> [id |-> i]]

VMatchValues == UNION {[1..len -> 1..MaxVLabel] : len \in 1..MaxVMatchSize}

VInputs == UNION {[1..len -> VMatchValues] : len \in 0..MaxVMatches}

InitValVars ==
    /\ validators = RegisteredValidators
    /\ v_schedule \in VInputs
    /\ v_next = 0
    /\ warnings = <<>>
    /\ errors = <<>>
    /\ v_pc = "running"
    /\ v_exc = "none"

\* if not schedule: return [], ["No matches in schedule"]
VBlankSchedule ==
    /\ v_pc = "running"
    /\ v_schedule = <<>>
    /\ errors' = <<"No matches in schedule">>
    /\ v_pc' = "returned"
    /\ UNCHANGED <<validators, v_schedule, v_next, warnings, v_exc>>
    /\ UNCHANGED <<gen_vars, pz_vars, cache_vars>>

\* one turn of "for validator in _VALIDATORS" in which _run_validator
\* returns True: the loop goes on
VRunValidator ==
    /\ v_pc = "running"
    /\ v_schedule # <<>>
    /\ v_next < Len(validators)
    /\ LET r == run_validator(validators[v_next + 1], v_schedule, warnings, errors)
       IN  /\ r.exc = "none"
           /\ r.go_on
           /\ warnings' = r.warnings
           /\ errors' = r.errors
    /\ v_next' = v_next + 1
    /\ UNCHANGED <<validators, v_schedule, v_pc, v_exc>>
    /\ UNCHANGED <<gen_vars, pz_vars, cache_vars>>

\* one turn of the loop in which _run_validator returns False: break, then
\* return warnings, errors.  No registered rule returns False.
VValidatorStops ==
    /\ v_pc = "running"
    /\ v_schedule # <<>>
    /\ v_next < Len(validators)
    /\ LET r == run_validator(validators[v_next + 1], v_schedule, warnings, errors)
       IN  /\ r.exc = "none"
           /\ ~r.go_on
           /\ warnings' = r.warnings
           /\ errors' = r.errors
    /\ v_next' = v_next + 1
    /\ v_pc' = "returned"
    /\ UNCHANGED <<validators, v_schedule, v_exc>>
    /\ UNCHANGED <<gen_vars, pz_vars, cache_vars>>

\* one turn of the loop in which the rule raises: run_validators raises
VValidatorRaises ==
    /\ v_pc = "running"
    /\ v_schedule # <<>>
    /\ v_next < Len(validators)
    /\ LET r == run_validator(validators[v_next + 1], v_schedule, warnings, errors)
       IN  /\ r.exc # "none"
           /\ warnings' = r.warnings
           /\ errors' = r.errors
           /\ v_exc' = r.exc
    /\ v_pc' = "raised"
    /\ UNCHANGED <<validators, v_schedule, v_next>>
    /\ UNCHANGED <<gen_vars, pz_vars, cache_vars>>

\* return warnings, errors
VReturn ==
    /\ v_pc = "running"
    /\ v_schedule # <<>>
    /\ v_next = Len(validators)
    /\ v_pc' = "returned"
    /\ UNCHANGED <<validators, v_schedule, v_next, warnings, errors, v_exc>>
    /\ UNCHANGED <<gen_vars, pz_vars, cache_vars>>

InitValidate == IdleGenVars /\ IdlePzVars /\ InitValVars /\ IdleCacheVars

NextValidate ==
    \/ VBlankSchedule
    \/ VRunValidator
    \/ VValidatorRaises
    \/ VReturn

SpecValidate == InitValidate /\ [][NextValidate]_vars

(***************************************************************************)
(* run_validators over any registered generator functions: the loop of     *)
(* run_validators and _run_validator with rules given by their runs (what  *)
(* they yield, whether they raise, what they return).                      *)
(***************************************************************************)
MaxRules == 2
MaxYields == 2

\* what a generator can yield: an (level, message) pair as error(message)
\* and warning(message) build it, or a pair of another level
YieldValues ==
    [level : {"error", "warning", "info"}, args : {<<"a">>, <<"b">>}]

GeneratorRuns ==
    [id : {0},
     calls : UNION {[1..len -> YieldValues] : len \in 0..MaxYields},
     exc : {"none", "KeyError"},
     returns : {"None", "False"}]

InitPipelineVars ==
    /\ validators \in UNION {[1..len -> GeneratorRuns] : len \in 0..MaxRules}
    /\ v_schedule \in {<<>>, <<<<1, 2>>>>}
    /\ v_next = 0
    /\ warnings = <<>>
    /\ errors = <<>>
    /\ v_pc = "running"
    /\ v_exc = "none"

InitPipeline == IdleGenVars /\ IdlePzVars /\ InitPipelineVars /\ IdleCacheVars

NextPipeline ==
    \/ VBlankSchedule
    \/ VRunValidator
    \/ VValidatorStops
    \/ VValidatorRaises
    \/ VReturn

SpecPipeline == InitPipeline /\ [][NextPipeline]_vars

(***************************************************************************)
(* Claims about generation, checked under SpecGen.                         *)
(***************************************************************************)
Built == gen_pc \in {"built", "coalesced", "coalesce_failed"}

Returned == gen_pc = "coalesced"

\* the entries (match, zone) of the window of matches lo..hi that hold `team`
WindowEntries(sched, lo, hi, team) ==
    {mz \in (lo..hi) \X (1..num_zones) : sched[mz[1]][mz[2]] = team}

\* C1: for spacing S > 0, every window of S+1 consecutive matches of a
\* schedule that generation returned holds each team at most once, the
\* windows that span the seam of two rounds included.
C1_SpacingWindows ==
    (Returned /\ spacing > 0) =>
        \A lo \in 1..(Len(final_schedule) - spacing) :
            \A team \in 0..(num_teams - 1) :
                Cardinality(WindowEntries(final_schedule, lo, lo + spacing,
                                          team)) <= 1

\* a returned schedule of several rounds with a window across a seam
C1_Witness ==
    /\ Returned /\ spacing > 0 /\ num_rounds >= 2
    /\ Len(proto_round) >= 2

\* C2: no two matches at different positions of a returned schedule have
\* the same set of teams.
C2_NoRepeatedTeamSets ==
    Returned =>
        \A i, j \in DOMAIN final_schedule :
            i # j => MatchTeams(final_schedule[i]) # MatchTeams(final_schedule[j])

\* (supporting C2) the same for at least two zones per match
C2_NoRepeatedTeamSets_TwoZones ==
    (Returned /\ num_zones >= 2) =>
        \A i, j \in DOMAIN final_schedule :
            i # j => MatchTeams(final_schedule[i]) # MatchTeams(final_schedule[j])

\* the matches of round r (0-based) of the returned schedule
RoundMatches(r) ==
    SubSeq(final_schedule, r * Len(proto_round) + 1, (r + 1) * Len(proto_round))

\* C3: every round of a returned schedule assigns a permutation of all T
\* teams, the schedule has R*M matches and every team is in exactly A*R.
C3_Appearances ==
    Returned =>
        /\ Len(final_schedule) = num_rounds * Len(proto_round)
        /\ \A team \in 0..(num_teams - 1) :
             Appearances(final_schedule, team) = appearances_per_round * num_rounds
        /\ \A r \in 0..(num_rounds - 1) :
             \A team \in 0..(num_teams - 1) :
                Appearances(RoundMatches(r), team) = appearances_per_round
        /\ \A r \in DOMAIN team_to_pseudo_team :
             /\ DOMAIN team_to_pseudo_team[r] = 0..(num_teams - 1)
             /\ {team_to_pseudo_team[r][t] : t \in 0..(num_teams - 1)}
                    = 0..(num_teams - 1)

C3_Witness ==
    Returned /\ num_rounds >= 2 /\ num_zones >= 2

ScenarioA ==
    num_teams = 4 /\ appearances_per_round = 1 /\ num_zones = 2 /\ spacing = 1

\* C4: a returned proto-round has M = ceil(T*A/Z) matches of Z entries, all
\* in 0..T-1 and strictly increasing within a match, every pseudo-team
\* exactly A times; T=4, A=1, Z=2, S=1 does yield one, of 2 matches.
C4_ProtoRoundShape ==
    /\ Built =>
        /\ Len(proto_round) * num_zones >= num_teams * appearances_per_round
        /\ (Len(proto_round) - 1) * num_zones < num_teams * appearances_per_round
        /\ \A m \in DOMAIN proto_round :
             /\ Len(proto_round[m]) = num_zones
             /\ \A z \in 1..num_zones : proto_round[m][z] \in 0..(num_teams - 1)
             /\ \A z \in 1..(num_zones - 1) :
                    proto_round[m][z] < proto_round[m][z + 1]
        /\ \A team \in 0..(num_teams - 1) :
             Cardinality(WindowEntries(proto_round, 1, Len(proto_round), team))
                = appearances_per_round
    /\ ScenarioA => gen_pc # "build_failed"
    /\ (ScenarioA /\ Built) => Len(proto_round) = 2

C4_Witness == ScenarioA /\ gen_pc = "built"

CoalesceEnded == gen_pc \in {"coalesced", "coalesce_failed"}

\* the team sets of round 0 do not recur in round 1
NoRecurrence ==
    \A i \in 1..Len(proto_round) : \A j \in 1..Len(proto_round) :
        MatchTeams(RoundMatches(0)[i]) # MatchTeams(RoundMatches(1)[j])

\* C5 as stated: for the proto-round of scenario A (spacing 1) and R = 2,
\* coalesce returns a schedule of 4 matches in which no team set of round 1
\* recurs in round 2; it does not fail.
C5_ScenarioB_Original ==
    (ScenarioA /\ num_rounds = 2 /\ CoalesceEnded) =>
        /\ Returned
        /\ Len(final_schedule) = 4
        /\ NoRecurrence

\* C5 amended: for the proto-round of scenario A and R = 2, coalesce with
\* spacing 1 returns no schedule (it raises "Unable to solve"); with
\* spacing 0 it does not fail and returns 4 matches without a recurrence.
C5_ScenarioB_Amended ==
    (num_teams = 4 /\ appearances_per_round = 1 /\ num_zones = 2
        /\ num_rounds = 2 /\ CoalesceEnded) =>
        /\ spacing = 1 => gen_pc = "coalesce_failed"
        /\ spacing = 0 =>
             /\ Returned
             /\ Len(final_schedule) = 4
             /\ NoRecurrence

C5_Witness ==
    ScenarioA /\ num_rounds = 2 /\ gen_pc = "coalesce_failed"

\* FacingCount of the pair {t, u} over rounds 0..r-1 of the returned schedule
FacingCount(t, u, r) ==
    Cardinality({m \in 1..(r * Len(proto_round)) :
                    {t, u} \subseteq MatchTeams(final_schedule[m])})

TeamPairs ==
    {p \in (0..(num_teams - 1)) \X (0..(num_teams - 1)) : p[1] < p[2]}

LowestPairs(r) ==
    {p \in TeamPairs :
        \A q \in TeamPairs : FacingCount(p[1], p[2], r) <= FacingCount(q[1], q[2], r)}

\* C6: in a returned schedule, every round r >= 1 has a match shared by a
\* pair of teams that is among the pairs of lowest facing count over
\* rounds 0..r-1.
C6_FacingDeficitSteering ==
    Returned =>
        \A r \in 1..(num_rounds - 1) :
            \E p \in LowestPairs(r) :
                \E m \in DOMAIN RoundMatches(r) :
                    {p[1], p[2]} \subseteq MatchTeams(RoundMatches(r)[m])

\* (supporting C6) with two or three zones every pair that shares a match of
\* round r has facing count 0 over the rounds before
C6_NewPairsOnly ==
    (Returned /\ num_zones \in {2, 3}) =>
        \A r \in 1..(num_rounds - 1) :
            \A p \in TeamPairs :
                (\E m \in DOMAIN RoundMatches(r) :
                    {p[1], p[2]} \subseteq MatchTeams(RoundMatches(r)[m]))
                => FacingCount(p[1], p[2], r) = 0


(***************************************************************************)
(* Claims about permute_zones, checked under SpecPermute.                  *)
(***************************************************************************)
SameMembership ==
    /\ Len(schedule) = Len(pz_input)
    /\ \A m \in DOMAIN pz_input : schedule[m] \in match_permutations(pz_input[m])

\* C7: for every input schedule permute_zones returns (it does not raise),
\* and after every descent and escape step as at the end the schedule has
\* the matches of the input in the same order, each a permutation of the
\* input match at its index.
C7_ZoneFrame ==
    pz_pc # "raised" /\ SameMembership

\* (supporting C7) the same for the schedules with at least one match
C7_ZoneFrame_NonEmpty ==
    pz_input # <<>> => (pz_pc # "raised" /\ SameMembership)

\* all (team, zone) pairs that occur in the schedule have equal counts
PerfectlyBalanced(sched) ==
    \A tz1, tz2 \in TeamZonePairs(sched) :
        appearance_count(sched, tz1) = appearance_count(sched, tz2)

\* C8: for a perfectly balanced input, whatever the common count,
\* permute_zones returns a schedule identical to its input.
C8_BalancedUnchanged ==
    (pz_pc = "returned" /\ PerfectlyBalanced(pz_input)) => schedule = pz_input

\* (supporting C8) the same for the inputs whose common count is 1
C8_CountOneUnchanged ==
    (pz_pc = "returned" /\ BadnessWeight(pz_input) = 1) => schedule = pz_input

\* C9: the schedule permute_zones returns has a badness no greater than
\* that of any schedule it scored at the start of a pass.
C9_ReturnsBestObserved ==
    pz_pc = "returned" => BadnessWeight(schedule) <= pz_seen


(***************************************************************************)
(* Claims about run_validators, checked under SpecValidate.                *)
(***************************************************************************)
\* the findings of rule i: what the rule comes to yield, as (level, code,
\* message)
FindingsOf(i, sched) ==
    [k \in DOMAIN RunRule(i, sched).calls |->
        <<RunRule(i, sched).calls[k].level>> \o RunRule(i, sched).calls[k].args]

\* the messages of the findings of rule i at `level`
Reported(list, i, sched, level) ==
    \A k \in DOMAIN FindingsOf(i, sched) :
        FindingsOf(i, sched)[k][1] = level =>
            \E x \in DOMAIN list :
                list[x] \in {FindingsOf(i, sched)[k],
                             Tail(FindingsOf(i, sched)[k]),
                             FindingsOf(i, sched)[k][3]}

\* C10: for every non-empty schedule run_validators never raises, and the
\* (warnings, errors) it returns hold every finding of every rule.
C10_FindingsNotExceptions ==
    v_schedule # <<>> =>
        /\ v_pc # "raised"
        /\ v_pc = "returned" =>
             \A i \in 1..NumValidators :
                /\ Reported(errors, i, v_schedule, "error")
                /\ Reported(warnings, i, v_schedule, "warning")

\* (supporting C10) a schedule for which some rule has a finding never
\* yields a returned pair
C10_AnyFindingRaises ==
    (v_pc = "returned" /\ v_schedule # <<>>) =>
        \A i \in 1..NumValidators : FindingsOf(i, v_schedule) = <<>>

\* run_validators has ended, by return or by an exception
VEnded == v_pc \in {"returned", "raised"}

\* the entries of `list` that are the finding of `call`: its (code, message)
\* pair or its message
EntriesOf(list, call) ==
    {x \in DOMAIN list : list[x] = call.args \/ list[x] = call.args[2]}

\* team t appears fewer times than every other team of the schedule, and
\* all other teams appear equally often
OneDeviant(sched, t) ==
    /\ t \in TeamsOf(sched)
    /\ TeamsOf(sched) # {t}
    /\ \A u, w \in TeamsOf(sched) \ {t} :
         /\ CountEntries(sched, u) = CountEntries(sched, w)
         /\ CountEntries(sched, t) < CountEntries(sched, u)

\* the rules registered before rule i have no finding for the schedule and
\* do not raise
CleanBefore(i, sched) ==
    \A j \in 1..(i - 1) :
        RunRule(j, sched).calls = <<>> /\ RunRule(j, sched).exc = "none"

\* C11: for a schedule in which exactly one team appears fewer times than
\* the others, which appear equally often, the pipeline returns an error
\* list with exactly one equal-appearances error, and it names that team.
\* (Stated for the schedules the rules before equal-appearances accept.)
C11_OneDeviantOneError ==
    \A t \in 1..MaxVLabel :
        (VEnded /\ OneDeviant(v_schedule, t) /\ CleanBefore(2, v_schedule)) =>
            /\ v_pc = "returned"
            /\ Cardinality(UNION {EntriesOf(errors,
                                     validate_equal_appearances(v_schedule).calls[k]) :
                    k \in DOMAIN validate_equal_appearances(v_schedule).calls}) = 1
            /\ \E k \in DOMAIN validate_equal_appearances(v_schedule).calls :
                 /\ validate_equal_appearances(v_schedule).calls[k].args[2][2] = t
                 /\ EntriesOf(errors,
                        validate_equal_appearances(v_schedule).calls[k]) # {}

\* (supporting C11) the rule itself comes to exactly one error call for such
\* a schedule, with the deviating team in its message
C11_RuleFindsTheDeviant ==
    \A t \in 1..MaxVLabel :
        OneDeviant(v_schedule, t) =>
            /\ Len(validate_equal_appearances(v_schedule).calls) = 1
            /\ validate_equal_appearances(v_schedule).calls[1].level = "error"
            /\ validate_equal_appearances(v_schedule).calls[1].args[1]
                   = "unequal-appearances"
            /\ validate_equal_appearances(v_schedule).calls[1].args[2][2] = t

\* the matches whose team set is that of an earlier match
Reruns(sched) ==
    {m \in DOMAIN sched :
        \E k \in 1..(m - 1) : MatchTeams(sched[k]) = MatchTeams(sched[m])}

\* C12: for a schedule with matches of repeated team sets the pipeline
\* returns an error list with one reruns error per match whose team set is
\* that of an earlier match (exactly one if exactly two matches agree), and
\* the error gives the indices of both matches.  (Stated for the schedules
\* the rules before reruns accept.)
C12_OneErrorPerRerun ==
    (VEnded /\ Reruns(v_schedule) # {} /\ CleanBefore(5, v_schedule)) =>
        /\ v_pc = "returned"
        /\ \A m \in Reruns(v_schedule) :
             \E k \in 1..(m - 1) :
                /\ MatchTeams(v_schedule[k]) = MatchTeams(v_schedule[m])
                /\ \E x \in DOMAIN errors :
                     \E call \in {validate_reruns(v_schedule).calls[i] :
                                     i \in DOMAIN validate_reruns(v_schedule).calls} :
                        /\ x \in EntriesOf(errors, call)
                        /\ call.args[2][2] = m - 1
                        /\ call.args[2][4] = k - 1
        /\ Cardinality(UNION {EntriesOf(errors, validate_reruns(v_schedule).calls[i]) :
                                 i \in DOMAIN validate_reruns(v_schedule).calls})
              = Cardinality(Reruns(v_schedule))

\* (supporting C12) the rule itself comes to one error call per match whose
\* team set is that of an earlier match, with both indices in its message
C12_RuleFindsEveryRerun ==
    /\ Len(validate_reruns(v_schedule).calls) = Cardinality(Reruns(v_schedule))
    /\ \A i \in DOMAIN validate_reruns(v_schedule).calls :
         LET message == validate_reruns(v_schedule).calls[i].args[2]
         IN  /\ validate_reruns(v_schedule).calls[i].level = "error"
             /\ (message[2] + 1) \in Reruns(v_schedule)
             /\ message[4] < message[2]
             /\ MatchTeams(v_schedule[message[4] + 1])
                    = MatchTeams(v_schedule[message[2] + 1])


\* rule `rule` signals stop on the schedule: its generator ends by
\* returning False
SignalsStop(rule, sched) ==
    /\ RuleOutcome(rule, sched).returns = "False"
    /\ Consume(RuleOutcome(rule, sched).calls, RuleOutcome(rule, sched).exc,
               <<>>, <<>>).exc = "none"

\* the list entries of the findings at `level` among `calls`
EntriesAt(calls, level) ==
    LET at == SelectSeq(calls, LAMBDA call : call.level = level)
    IN  [i \in DOMAIN at |->
            IF Len(at[i].args) = 1 THEN at[i].args[1] ELSE at[i].args]

\* the findings at `level` of the first k rules, in registration order
FindingsUpTo(k, level) ==
    Flatten([j \in 1..k |->
        EntriesAt(RuleOutcome(validators[j], v_schedule).calls, level)])

\* C13: rules run in registration order; a rule that signals stop is the
\* last to run and run_validators returns exactly the findings of the rules
\* up to and including it; a rule that does not signal stop never keeps the
\* rules after it from running.  (v_next counts the rules that have run.)
C13_OnlyAStopSkipsRules ==
    (VEnded /\ v_schedule # <<>>) =>
        /\ \/ v_next = Len(validators)
           \/ v_next >= 1 /\ SignalsStop(validators[v_next], v_schedule)
        /\ \A j \in 1..(v_next - 1) : ~SignalsStop(validators[j], v_schedule)
        /\ v_pc = "returned" =>
             /\ errors = FindingsUpTo(v_next, "error")
             /\ warnings = FindingsUpTo(v_next, "warning")

\* (supporting C13, under SpecPipeline) whenever run_validators returns,
\* it has run the rules in order up to the first that signals stop, or all
\* of them, and returns exactly their findings
C13_ReturnedUpToTheStop ==
    (v_pc = "returned" /\ v_schedule # <<>>) =>
        /\ \/ v_next = Len(validators)
           \/ v_next >= 1 /\ SignalsStop(validators[v_next], v_schedule)
        /\ \A j \in 1..(v_next - 1) : ~SignalsStop(validators[j], v_schedule)
        /\ errors = FindingsUpTo(v_next, "error")
        /\ warnings = FindingsUpTo(v_next, "warning")

\* (supporting C13, under SpecPipeline) a stop that skipped a rule
C13_StopSkippedARule ==
    /\ v_pc = "returned" /\ v_next = 1 /\ Len(validators) = 2
    /\ errors # <<>>


(***************************************************************************)
(* Claims about the proto-round cache, checked under SpecCache.            *)
(***************************************************************************)
\* C14: a miss and every failure to read or write the cache are non-fatal:
\* build_proto_round then returns a round the solver computes for its
\* arguments (and fails only as the solver fails); a hit returns the round
\* stored for exactly the key of its arguments.
C14_CacheFailuresNonFatal ==
    c_pc # "idle" =>
        IF c_found.kind = "stored" /\ c_found.value # <<>>
        THEN c_pc = "returned" /\ c_result = c_found.value
        ELSE /\ ModelsOf(c_key) # {} =>
                  c_pc = "returned" /\ c_result \in ModelsOf(c_key)
             /\ ModelsOf(c_key) = {} =>
                  c_pc = "raised" /\ c_exc = "ValueError"

\* (supporting C14) when the cache file is absent and can be written, or
\* holds a stored round, the call behaves as the claim says, and a stored
\* round is one the solver can return for its key
C14_HitAndMiss ==
    /\ \A key \in CacheKeys :
         cache[key].kind = "stored" => cache[key].value \in ModelsOf(key)
    /\ (c_pc # "idle" /\ c_found.kind = "stored") =>
         c_pc = "returned" /\ c_result = c_found.value
    /\ (c_pc # "idle" /\ c_found.kind = "absent" /\ cache_writable) =>
         /\ ModelsOf(c_key) # {} =>
              /\ c_pc = "returned" /\ c_result \in ModelsOf(c_key)
              /\ cache[c_key] \in {Stored(c_result), Damaged("corrupt"),
                                   Damaged("unreadable")}
         /\ ModelsOf(c_key) = {} => c_pc = "raised" /\ c_exc = "ValueError"


(***************************************************************************)
(* Further claims about generation, checked under SpecGen.                 *)
(***************************************************************************)
\* the parameters the specification calls invalid
InvalidParameters ==
    \/ num_teams <= 0 \/ num_rounds <= 0
    \/ appearances_per_round <= 0 \/ num_zones <= 0
    \/ num_zones < 2
    \/ spacing >= num_matches_of(num_teams, appearances_per_round, num_zones)

\* a solver has been run: every state but the first is reached by a
\* solver.check() of _build_proto_round
SolverInvoked == gen_pc \in {"built", "build_failed", "coalesced", "coalesce_failed"}

\* C15: with invalid parameters generation fails before any solver runs and
\* returns neither a proto-round nor a schedule.
C15_InvalidParametersRejected ==
    InvalidParameters =>
        /\ ~SolverInvoked
        /\ proto_round = NoValue
        /\ final_schedule = NoValue

\* (supporting C15) a schedule returned for two zones and a spacing that is
\* not less than the number of matches of a round
C15_ReturnedForSpacingBeyondRound ==
    /\ Returned /\ num_zones >= 2
    /\ spacing >= num_matches_of(num_teams, appearances_per_round, num_zones)


\* C16 as stated: for every R >= 1 the first M matches of the returned
\* schedule are exactly the proto-round's matches (round 0 is the identity).
C16_RoundZeroIdentity ==
    Returned => RoundMatches(0) = proto_round

\* C16 amended: for R = 1 the returned schedule is the proto-round itself;
\* for R >= 2 every round, round 0 included, is the proto-round with each
\* pseudo-team replaced by the team the solver's model maps to it in that
\* round, and that map need not be the identity in round 0.
C16_RoundsFollowTheModel ==
    Returned =>
        /\ num_rounds = 1 => final_schedule = proto_round
        /\ num_rounds >= 2 =>
             \A r \in 0..(num_rounds - 1) :
                \A m \in DOMAIN proto_round : \A z \in 1..num_zones :
                    team_to_pseudo_team[r + 1][RoundMatches(r)[m][z]]
                        = proto_round[m][z]

\* a returned schedule of several rounds whose round 0 is not the
\* proto-round
C16_Witness ==
    /\ Returned /\ num_rounds >= 2 /\ num_zones >= 2
    /\ RoundMatches(0) # proto_round


\* C17: in a schedule coalesce returns for R >= 2 no team is mapped to the
\* same pseudo-team in two different rounds; hence for R >= 2 and R > T
\* coalesce fails and returns no schedule.
C17_DistinctPseudoTeamsAcrossRounds ==
    /\ (Returned /\ num_rounds >= 2) =>
         \A team \in 0..(num_teams - 1) :
            \A r1, r2 \in 1..num_rounds :
                r1 # r2 =>
                    team_to_pseudo_team[r1][team] # team_to_pseudo_team[r2][team]
    /\ (CoalesceEnded /\ num_rounds >= 2 /\ num_rounds > num_teams) =>
         /\ gen_pc = "coalesce_failed"
         /\ final_schedule = NoValue

\* coalesce has failed for more rounds than teams
C17_Witness ==
    /\ gen_pc = "coalesce_failed"
    /\ num_teams >= 2 /\ num_rounds > num_teams


====
